---------------------------- MODULE Spec2Model ----------------------------
(***************************************************************************)
(* Model of the mesh-gradient generator (src/generator/src/main.rs): the   *)
(* control grid (Mesh, ControlPoint), the Ferguson patch evaluation, the   *)
(* tessellation construct_mesh and the editor loop of main.                *)
(*                                                                         *)
(* Arithmetic is exact.  Two representations of an f32 are used:           *)
(*   - a grid scalar (a control point's position, tangent or colour        *)
(*     component, a pixel delta turned into grid space) is the integer     *)
(*     n that stands for n / One;                                          *)
(*   - an evaluated scalar (a parameter u, v and everything computed by    *)
(*     ferguson_patch_pt / ferguson_patch_col and after) is a rational     *)
(*     <<n, d>> in lowest terms with d > 0.                                *)
(* Pixel coordinates (mouse positions, ws_coord) are plain integers.       *)
(***************************************************************************)
EXTENDS Integers, Sequences, FiniteSets, TLC

VARIABLES
    pc,               \* where the program is: "main", "editor", "panicked";
                      \* inside construct_mesh: "sample", "index", "returned"
    args,             \* the arguments main passes to Mesh::new, <<>> once
                      \* they are moved into it
    mesh,             \* main's `mesh`
    active_point_idx, \* Option<usize>: <<>> is None, <<i>> is Some(i)
    last_mouse_pos,   \* Option<(f32, f32)>: <<>> or << <<x, y>> >>
    x_pos_text,       \* the edit boxes' contents
    y_pos_text,
    subdivs,          \* the slider's value, floored
    moves,            \* how many times a control point's position changed
    cw,               \* construct_mesh: the outer loop's w
    ch,               \* construct_mesh: the inner loop's h
    cr,               \* construct_mesh: the index loop's r
    cc,               \* construct_mesh: the index loop's c
    index_start,      \* construct_mesh: positions.len() before the patch
    positions,        \* construct_mesh: the positions emitted so far
    colors,           \* construct_mesh: the colours emitted so far
    indexes           \* construct_mesh: the indices emitted so far

vars == <<pc, args, mesh, active_point_idx, last_mouse_pos, x_pos_text,
          y_pos_text, subdivs, moves, cw, ch, cr, cc, index_start,
          positions, colors, indexes>>

editor_vars == <<active_point_idx, last_mouse_pos, x_pos_text, y_pos_text,
                 subdivs>>

loop_vars == <<cw, ch, cr, cc, index_start>>

out_vars == <<positions, colors, indexes>>

---------------------------------------------------------------------------
(* Bounds of the model.                                                    *)

\* The slider offers 0..20; the model explores 0..MaxSubdivs.
MaxSubdivs == 2

\* At most this many changes of a control point's position are explored.
MaxMoves == 1

---------------------------------------------------------------------------
(* Program constants.                                                      *)

WORKSPACE_SIZE_W == 600
WORKSPACE_SIZE_H == 600
WORKSPACE_PADDING == 160

\* The denominator of a grid scalar.  It is the workspace's drawable width
\* and height in pixels (sw = sh), so that a whole pixel is a whole unit.
One == WORKSPACE_SIZE_W - WORKSPACE_PADDING

NaN == "NaN"
Inf == "inf"

---------------------------------------------------------------------------
(* Exact rationals, for evaluated scalars.                                 *)

Abs(n) == IF n < 0 THEN -n ELSE n

RECURSIVE Gcd(_, _)
Gcd(a, b) == IF b = 0 THEN a ELSE Gcd(b, a % b)

\* n / d in lowest terms, d # 0.
Q(n, d) ==
    LET g == Gcd(Abs(n), Abs(d))
        s == IF d < 0 THEN -1 ELSE 1
    IN  <<(s * n) \div g, (s * d) \div g>>

QInt(n) == <<n, 1>>

QAdd(a, b) == Q(a[1] * b[2] + b[1] * a[2], a[2] * b[2])

QSub(a, b) == Q(a[1] * b[2] - b[1] * a[2], a[2] * b[2])

QMul(a, b) == Q(a[1] * b[1], a[2] * b[2])

\* The grid scalar n as a rational.
QGrid(n) == Q(n, One)

---------------------------------------------------------------------------
(* 4x4 matrices and 4-vectors of integers (nalgebra's Matrix4, Vector4).   *)

transpose(m) ==
    <<<<m[1][1], m[2][1], m[3][1], m[4][1]>>,
      <<m[1][2], m[2][2], m[3][2], m[4][2]>>,
      <<m[1][3], m[2][3], m[3][3], m[4][3]>>,
      <<m[1][4], m[2][4], m[3][4], m[4][4]>>>>

MatMul(a, b) ==
    LET e(i, j) == a[i][1] * b[1][j] + a[i][2] * b[2][j]
                 + a[i][3] * b[3][j] + a[i][4] * b[4][j]
    IN  <<<<e(1, 1), e(1, 2), e(1, 3), e(1, 4)>>,
          <<e(2, 1), e(2, 2), e(2, 3), e(2, 4)>>,
          <<e(3, 1), e(3, 2), e(3, 3), e(3, 4)>>,
          <<e(4, 1), e(4, 2), e(4, 3), e(4, 4)>>>>

MatVec(m, x) ==
    LET e(i) == m[i][1] * x[1] + m[i][2] * x[2] + m[i][3] * x[3]
              + m[i][4] * x[4]
    IN  <<e(1), e(2), e(3), e(4)>>

dot(a, b) == a[1] * b[1] + a[2] * b[2] + a[3] * b[3] + a[4] * b[4]

---------------------------------------------------------------------------
(* The control grid: ControlPoint and Mesh.                                *)

\* ControlPoint::new without the final `* 0.5`.
ControlPoint_new_unhalved(position, color, grid_w, grid_h) ==
    [position  |-> position,
     u_tangent |-> <<IF grid_w - 1 = 0 THEN Inf
                     ELSE (2 * One) \div (grid_w - 1), 0>>,
     v_tangent |-> <<0, IF grid_h - 1 = 0 THEN Inf
                        ELSE (2 * One) \div (grid_h - 1)>>,
     color     |-> color]

\* ControlPoint::new.  2.0 / (grid_w - 1) as f32 is +inf when grid_w = 1,
\* and inf * 0.5 is inf.
ControlPoint_new(position, color, grid_w, grid_h) ==
    [position  |-> position,
     u_tangent |-> <<IF grid_w - 1 = 0 THEN Inf
                     ELSE ((2 * One) \div (grid_w - 1)) \div 2, 0>>,
     v_tangent |-> <<0, IF grid_h - 1 = 0 THEN Inf
                        ELSE ((2 * One) \div (grid_h - 1)) \div 2>>,
     color     |-> color]

\* The position Mesh::new gives point number `count` (0-based).  With
\* width = 1, x_step = 1.0 / 0.0 = +inf and x = 0.0 * inf = NaN; likewise y.
Mesh_position(count, width, height) ==
    <<IF width - 1 = 0 THEN NaN
      ELSE (count % width) * (One \div (width - 1)),
      IF height - 1 = 0 THEN NaN
      ELSE (count \div width) * (One \div (height - 1))>>

\* The grid Mesh::new returns when it returns.
Mesh_value(width, height, colours) ==
    [width  |-> width,
     height |-> height,
     points |-> [k \in 1..(width * height) |->
                    ControlPoint_new(Mesh_position(k - 1, width, height),
                                     colours[k], width, height)]]

NoMesh == [width |-> 0, height |-> 0, points |-> <<>>]

\* Mesh::new: the set of its outcomes.  `width - 1` and `height - 1` are
\* usize subtractions: with 0 they panic when overflow checks are on and
\* wrap otherwise (the iterator then yields nothing, width * height = 0).
\* colors[count] panics when fewer than width * height colours are given;
\* more colours than that are never read.
Mesh_new(width, height, colours) ==
    IF width = 0 \/ height = 0
    THEN {[status |-> "panic", mesh |-> NoMesh],
          [status |-> "ok",
           mesh |-> [width |-> width, height |-> height, points |-> <<>>]]}
    ELSE IF Len(colours) < width * height
    THEN {[status |-> "panic", mesh |-> NoMesh]}
    ELSE {[status |-> "ok", mesh |-> Mesh_value(width, height, colours)]}

\* Mesh::point_at: the flat index is the only thing bounds-checked.
\* <<>> stands for the panic of an out-of-range Vec index.
point_at(m, w, h) ==
    IF h * m.width + w < Len(m.points)
    THEN <<m.points[h * m.width + w + 1]>>
    ELSE <<>>

\* point_at where the caller's indices are known to be in range.
at(m, w, h) == point_at(m, w, h)[1]

---------------------------------------------------------------------------
(* Workspace coordinates.                                                  *)

\* ws_coord: grid space to pixels.
ws_coord(point) ==
    LET sw == WORKSPACE_SIZE_W - WORKSPACE_PADDING
        sh == WORKSPACE_SIZE_H - WORKSPACE_PADDING
    IN  <<(point[1] * sw) \div One + WORKSPACE_PADDING \div 2,
          (point[2] * sh) \div One + WORKSPACE_PADDING \div 2>>

simd_clamp(x, lo, hi) == IF x < lo THEN lo ELSE IF x > hi THEN hi ELSE x

\* pt_coord with each component clamped to [-1, 1].
pt_coord_symmetric(point) ==
    LET sw == WORKSPACE_SIZE_W - WORKSPACE_PADDING
        sh == WORKSPACE_SIZE_H - WORKSPACE_PADDING
    IN  <<simd_clamp((point[1] * One) \div sw, -One, One),
          simd_clamp((point[2] * One) \div sh, -One, One)>>

\* pt_coord: a pixel vector to grid space, each component clamped to [0, 1].
pt_coord(point) ==
    LET sw == WORKSPACE_SIZE_W - WORKSPACE_PADDING
        sh == WORKSPACE_SIZE_H - WORKSPACE_PADDING
    IN  <<simd_clamp((point[1] * One) \div sw, 0, One),
          simd_clamp((point[2] * One) \div sh, 0, One)>>

\* The first index (0-based) of `from..` whose point is nearer than 5 pixels.
RECURSIVE first_near(_, _, _)
first_near(mouse_pos, points, idx) ==
    IF idx >= Len(points) THEN <<>>
    ELSE LET spoint == ws_coord(points[idx + 1].position)
             dx == spoint[1] - mouse_pos[1]
             dy == spoint[2] - mouse_pos[2]
         IN  IF dx * dx + dy * dy < 5 * 5 THEN <<idx>>
             ELSE first_near(mouse_pos, points, idx + 1)

\* point_idx: None outside the workspace, else the first point under the
\* mouse.
point_idx(mouse_pos, m) ==
    IF mouse_pos[1] > WORKSPACE_SIZE_W \/ mouse_pos[2] > WORKSPACE_SIZE_H
    THEN <<>>
    ELSE first_near(mouse_pos, m.points, 0)

\* str::parse::<f32> on the texts the model types into the edit boxes:
\* <<>> is Err, <<x>> is Ok(x).
parse_f32(text) ==
    CASE text = "1.5"  -> <<One + One \div 2>>
      [] text = "-0.5" -> <<-(One \div 2)>>
      [] OTHER         -> <<>>

---------------------------------------------------------------------------
(* The Hermite basis and the patch evaluation.                             *)

H == <<<< 2, -3,  0,  1>>,
       <<-2,  3,  0,  0>>,
       << 1, -2,  1,  0>>,
       << 1, -1,  0,  0>>>>

\* cubic_colvec(v) = (v^3, v^2, v, 1) for the rational v = n / d, as the
\* four numerators over the common denominator d^3.
cubic_colvec(v) ==
    <<v[1] * v[1] * v[1], v[1] * v[1] * v[2], v[1] * v[2] * v[2],
      v[2] * v[2] * v[2]>>

Axis == {"X", "Y"}

ColorAxis == {"R", "G", "B"}

\* geometric_coefficients without the final .transpose().
geometric_coefficients_untransposed(p00, p01, p10, p11, axis) ==
    LET k == IF axis = "X" THEN 1 ELSE 2
        l(p) == p.position[k]
        u(p) == p.u_tangent[k]
        v(p) == p.v_tangent[k]
    IN  <<<<l(p00), l(p01), v(p00), v(p01)>>,
          <<l(p10), l(p11), v(p10), v(p11)>>,
          <<u(p00), u(p01), 0, 0>>,
          <<u(p10), u(p11), 0, 0>>>>

\* geometric_coefficients: grid scalars.
geometric_coefficients(p00, p01, p10, p11, axis) ==
    LET k == IF axis = "X" THEN 1 ELSE 2
        l(p) == p.position[k]
        u(p) == p.u_tangent[k]
        v(p) == p.v_tangent[k]
    IN  transpose(<<<<l(p00), l(p01), v(p00), v(p01)>>,
                    <<l(p10), l(p11), v(p10), v(p11)>>,
                    <<u(p00), u(p01), 0, 0>>,
                    <<u(p10), u(p11), 0, 0>>>>)

\* color_coefficients without the final .transpose().
color_coefficients_untransposed(p00, p01, p10, p11, color) ==
    LET k == CASE color = "R" -> 1 [] color = "G" -> 2 [] color = "B" -> 3
        l(p) == p.color[k]
    IN  <<<<l(p00), l(p01), 0, 0>>,
          <<l(p10), l(p11), 0, 0>>,
          <<0, 0, 0, 0>>,
          <<0, 0, 0, 0>>>>

\* color_coefficients with slope terms of one unit where the code has 0.0.
color_coefficients_sloped(p00, p01, p10, p11, color) ==
    LET k == CASE color = "R" -> 1 [] color = "G" -> 2 [] color = "B" -> 3
        l(p) == p.color[k]
    IN  transpose(<<<<l(p00), l(p01), One, One>>,
                    <<l(p10), l(p11), One, One>>,
                    <<One, One, 0, 0>>,
                    <<One, One, 0, 0>>>>)

\* color_coefficients: grid scalars.
color_coefficients(p00, p01, p10, p11, color) ==
    LET k == CASE color = "R" -> 1 [] color = "G" -> 2 [] color = "B" -> 3
        l(p) == p.color[k]
    IN  transpose(<<<<l(p00), l(p01), 0, 0>>,
                    <<l(p10), l(p11), 0, 0>>,
                    <<0, 0, 0, 0>>,
                    <<0, 0, 0, 0>>>>)

\* One scalar field at (u, v): (H^T * coeffs^T * H * cubic(u)) . cubic(v).
\* The matrix holds numerators over One, cubic(u) over u[2]^3 and cubic(v)
\* over v[2]^3.
ferguson_field(u, v, coeffs) ==
    LET u_vec == cubic_colvec(u)
        v_vec == cubic_colvec(v)
        acc   == MatMul(MatMul(transpose(H), transpose(coeffs)), H)
        uf    == MatVec(acc, u_vec)
    IN  Q(dot(uf, v_vec), One * u_vec[4] * v_vec[4])

\* ferguson_patch_pt: the raw patch-space position at (u, v).
ferguson_patch_pt(u, v, geom_x, geom_y) ==
    <<ferguson_field(u, v, geom_x), ferguson_field(u, v, geom_y)>>

\* ferguson_patch_col: the colour at (u, v).
ferguson_patch_col(u, v, rgb_coeffs) ==
    <<ferguson_field(u, v, rgb_coeffs[1]),
      ferguson_field(u, v, rgb_coeffs[2]),
      ferguson_field(u, v, rgb_coeffs[3])>>

---------------------------------------------------------------------------
(* construct_mesh, one loop body at a time.                                *)

\* The output-space mapping without the flip of the vertical axis.
output_point_unflipped(raw) ==
    LET p2 == <<QMul(raw[1], QInt(2)), QMul(raw[2], QInt(2))>>
        p3 == <<QSub(p2[1], QInt(1)), QSub(p2[2], QInt(1))>>
    IN  <<p3[1], p3[2], QInt(0)>>

\* The output-space mapping of a raw position: p *= 2.0; p -= (1, 1);
\* p.component_mul_assign((1, -1)); then Vector3::new(p.x, p.y, 0.0).
output_point(raw) ==
    LET p2 == <<QMul(raw[1], QInt(2)), QMul(raw[2], QInt(2))>>
        p3 == <<QSub(p2[1], QInt(1)), QSub(p2[2], QInt(1))>>
        p4 == <<QMul(p3[1], QInt(1)), QMul(p3[2], QInt(-1))>>
    IN  <<p4[1], p4[2], QInt(0)>>

\* The four corners of patch (w, h), in the order p00, p01, p10, p11.
patch_corners(m, w, h) ==
    <<at(m, w, h), at(m, w, h + 1), at(m, w + 1, h), at(m, w + 1, h + 1)>>

\* The pair pushed for sample (i, j) with the parameters i / (steps + 1)
\* and j / (steps + 1), which stop short of 1.
patch_sample_open(m, w, h, steps, i, j) ==
    LET p == patch_corners(m, w, h)
        x_coeff == geometric_coefficients(p[1], p[2], p[3], p[4], "X")
        y_coeff == geometric_coefficients(p[1], p[2], p[3], p[4], "Y")
        r_coeff == color_coefficients(p[1], p[2], p[3], p[4], "R")
        g_coeff == color_coefficients(p[1], p[2], p[3], p[4], "G")
        b_coeff == color_coefficients(p[1], p[2], p[3], p[4], "B")
        u == Q(i, steps + 1)
        v == Q(j, steps + 1)
    IN  [point |-> output_point(ferguson_patch_pt(u, v, x_coeff, y_coeff)),
         color |-> ferguson_patch_col(u, v, <<r_coeff, g_coeff, b_coeff>>)]

\* The pair (point, color) pushed for sample (i, j) of patch (w, h).
patch_sample(m, w, h, steps, i, j) ==
    LET p == patch_corners(m, w, h)
        x_coeff == geometric_coefficients(p[1], p[2], p[3], p[4], "X")
        y_coeff == geometric_coefficients(p[1], p[2], p[3], p[4], "Y")
        r_coeff == color_coefficients(p[1], p[2], p[3], p[4], "R")
        g_coeff == color_coefficients(p[1], p[2], p[3], p[4], "G")
        b_coeff == color_coefficients(p[1], p[2], p[3], p[4], "B")
        u == Q(i, steps)
        v == Q(j, steps)
    IN  [point |-> output_point(ferguson_patch_pt(u, v, x_coeff, y_coeff)),
         color |-> ferguson_patch_col(u, v, <<r_coeff, g_coeff, b_coeff>>)]

\* The sample loop with exclusive ranges: for i in 0..steps, for j in
\* 0..steps.
patch_samples_exclusive(m, w, h, steps) ==
    [k \in 1..(steps * steps) |->
        patch_sample(m, w, h, steps, (k - 1) \div steps, (k - 1) % steps)]

\* The sample loop of one patch: for i in 0..=steps, for j in 0..=steps,
\* what is pushed, in push order.
patch_samples(m, w, h, steps) ==
    [k \in 1..((steps + 1) * (steps + 1)) |->
        patch_sample(m, w, h, steps,
                     (k - 1) \div (steps + 1), (k - 1) % (steps + 1))]

\* The six indices with the row stride one too long.
cell_indexes_wide(start, row_len, r, c) ==
    <<start + r * (row_len + 1) + c + row_len + 1,
      start + r * (row_len + 1) + c + 1,
      start + r * (row_len + 1) + c,
      start + r * (row_len + 1) + c + row_len + 1,
      start + r * (row_len + 1) + c + row_len + 2,
      start + r * (row_len + 1) + c + 1>>

\* The six indices with the first triangle wound the other way.
cell_indexes_rewound(start, row_len, r, c) ==
    <<start + r * row_len + c,
      start + r * row_len + c + 1,
      start + r * row_len + c + row_len,
      start + r * row_len + c + row_len,
      start + r * row_len + c + row_len + 1,
      start + r * row_len + c + 1>>

\* The six indices without the patch's index_start.
cell_indexes_unoffset(start, row_len, r, c) ==
    <<r * row_len + c + row_len,
      r * row_len + c + 1,
      r * row_len + c,
      r * row_len + c + row_len,
      r * row_len + c + row_len + 1,
      r * row_len + c + 1>>

\* The six indices pushed for cell (r, c) of a patch.  The `as u32` casts
\* are exact for every value the model reaches.
cell_indexes(start, row_len, r, c) ==
    <<start + r * row_len + c + row_len,
      start + r * row_len + c + 1,
      start + r * row_len + c,
      start + r * row_len + c + row_len,
      start + r * row_len + c + row_len + 1,
      start + r * row_len + c + 1>>

\* The grids the editor and the tessellation are explored on: those the
\* contract of Mesh::new allows.
WellFormed(m) ==
    m.width >= 2 /\ m.height >= 2 /\ Len(m.points) = m.width * m.height

\* The body of `for h` up to the index loop: the coefficient matrices and
\* the sample loop of patch (cw, ch).
SamplePatch ==
    /\ pc = "sample"
    /\ LET steps == subdivs + 1
           new   == patch_samples(mesh, cw, ch, steps)
       IN  /\ index_start' = Len(positions)
           /\ positions' = positions \o [k \in DOMAIN new |-> new[k].point]
           /\ colors' = colors \o [k \in DOMAIN new |-> new[k].color]
    /\ cr' = 0
    /\ cc' = 0
    /\ pc' = "index"
    /\ UNCHANGED <<args, mesh, editor_vars, moves, cw, ch, indexes>>

\* One body of `for c` in the index loop, and the loop headers that follow
\* it: the next cell, the next patch or the return.
IndexCell ==
    /\ pc = "index"
    /\ LET steps   == subdivs + 1
           row_len == steps + 1
           last_c  == cc + 1 = steps
           last_r  == cr + 1 = steps
           last_h  == ch + 1 = mesh.height - 1
           last_w  == cw + 1 = mesh.width - 1
       IN  /\ indexes' = indexes \o cell_indexes(index_start, row_len, cr, cc)
           /\ cc' = IF last_c THEN 0 ELSE cc + 1
           /\ cr' = IF ~last_c THEN cr ELSE IF last_r THEN 0 ELSE cr + 1
           /\ ch' = IF ~(last_c /\ last_r) THEN ch
                    ELSE IF last_h THEN 0 ELSE ch + 1
           /\ cw' = IF last_c /\ last_r /\ last_h THEN cw + 1 ELSE cw
           /\ pc' = IF ~(last_c /\ last_r) THEN "index"
                    ELSE IF last_h /\ last_w THEN "returned" ELSE "sample"
    /\ UNCHANGED <<args, mesh, editor_vars, moves, index_start, positions,
                   colors>>

---------------------------------------------------------------------------
(* main: the construction of the grid and the editor's frame handlers.     *)

\* The grid dimensions explored.  1 / (w - 1) is a whole number of grid
\* units for each of them.
Dims == {0, 1, 2, 3}

\* The k-th colour (0-based) of the colour vectors explored.
palette(k) == <<(k % 2) * One, ((k \div 2) % 2) * One, (k % 3) * (One \div 2)>>

palette_vec(n) == [k \in 1..n |-> palette(k - 1)]

\* The arguments of Mesh::new explored: every pair of dimensions with one
\* colour too few, the right number and one too many (main's own call is
\* 3, 3 and nine colours).
MeshArgs ==
    {[width |-> t[1], height |-> t[2], colors |-> palette_vec(t[3])] :
        t \in {t \in Dims \X Dims \X (0..(3 * 3 + 1)) :
                  t[3] - t[1] * t[2] \in {-1, 0, 1}}}

\* The mouse positions explored, in pixels: on the first, the middle and
\* the last point of the constructed 3x3 grid, 3 pixels off the first
\* point, right of the unit square, below the workspace and right of it.
MousePositions ==
    {<<80, 80>>, <<300, 300>>, <<520, 520>>, <<83, 83>>, <<564, 300>>,
     <<300, 740>>, <<740, 300>>}

\* The edit-box contents explored.
Texts == {"", "1.5", "-0.5"}

\* m with the position of point idx (0-based) replaced.
with_position(m, idx, position) ==
    [m EXCEPT !.points[idx + 1].position = position]

\* The budget of the exploration: a step that changes the grid is taken
\* only while fewer than MaxMoves changes were made, and counts as one.
Budget ==
    IF mesh' = mesh THEN moves' = moves
    ELSE moves < MaxMoves /\ moves' = moves + 1

\* let mut mesh = Mesh::new(...): a panic ends the program.
NewMesh ==
    /\ pc = "main"
    /\ \E out \in Mesh_new(args.width, args.height, args.colors) :
          /\ mesh' = out.mesh
          /\ pc' = IF out.status = "ok" THEN "editor" ELSE "panicked"
    /\ args' = <<>>
    /\ UNCHANGED <<editor_vars, moves, loop_vars, out_vars>>

\* The "Update point" button, with xt and yt typed into the edit boxes.
\* The button exists only while a point is active.
UpdatePoint(xt, yt) ==
    /\ pc = "editor"
    /\ WellFormed(mesh)
    /\ active_point_idx # <<>>
    /\ x_pos_text' = xt
    /\ y_pos_text' = yt
    /\ LET point_idx_ == active_point_idx[1]
           x  == parse_f32(xt)
           y  == parse_f32(yt)
           p  == mesh.points[point_idx_ + 1].position
           px == IF x # <<>> THEN x[1] ELSE p[1]
           py == IF y # <<>> THEN y[1] ELSE p[2]
       IN  mesh' = with_position(mesh, point_idx_, <<px, py>>)
    /\ Budget
    /\ UNCHANGED <<pc, args, active_point_idx, last_mouse_pos, subdivs,
                   loop_vars, out_vars>>

\* A frame with the left button down and the mouse at mouse_pos.
MouseDown(mouse_pos) ==
    /\ pc = "editor"
    /\ WellFormed(mesh)
    /\ IF mouse_pos[1] < WORKSPACE_SIZE_W
       THEN /\ IF last_mouse_pos # <<>> /\ active_point_idx # <<>>
               THEN LET last  == last_mouse_pos[1]
                        delta == pt_coord(<<mouse_pos[1] - last[1],
                                            mouse_pos[2] - last[2]>>)
                        p == mesh.points[active_point_idx[1] + 1].position
                    IN  mesh' = with_position(mesh, active_point_idx[1],
                                    <<p[1] + delta[1], p[2] + delta[2]>>)
               ELSE mesh' = mesh
            /\ Budget
            /\ active_point_idx' = point_idx(mouse_pos, mesh')
            /\ last_mouse_pos' = <<mouse_pos>>
       ELSE UNCHANGED <<mesh, moves, active_point_idx, last_mouse_pos>>
    /\ UNCHANGED <<pc, args, x_pos_text, y_pos_text, subdivs, loop_vars,
                   out_vars>>

\* A frame in which the left button was released.
MouseReleased ==
    /\ pc = "editor"
    /\ WellFormed(mesh)
    /\ last_mouse_pos' = <<>>
    /\ UNCHANGED <<pc, args, mesh, active_point_idx, x_pos_text, y_pos_text,
                   subdivs, moves, loop_vars, out_vars>>

\* "Save mesh" pressed with the slider at s: construct_mesh borrows the
\* grid, and what it returns goes to the file and is dropped.  The steps
\* of construct_mesh itself are those of TessSpec.
SaveMesh(s) ==
    /\ pc = "editor"
    /\ WellFormed(mesh)
    /\ subdivs' = s
    /\ UNCHANGED <<pc, args, mesh, active_point_idx, last_mouse_pos,
                   x_pos_text, y_pos_text, moves, loop_vars, out_vars>>

Init ==
    /\ pc = "main"
    /\ args \in MeshArgs
    /\ mesh = NoMesh
    /\ active_point_idx = <<>>
    /\ last_mouse_pos = <<>>
    /\ x_pos_text = ""
    /\ y_pos_text = ""
    /\ subdivs = 0
    /\ moves = 0
    /\ cw = 0
    /\ ch = 0
    /\ cr = 0
    /\ cc = 0
    /\ index_start = 0
    /\ positions = <<>>
    /\ colors = <<>>
    /\ indexes = <<>>

Next ==
    \/ NewMesh
    \/ \E xt \in Texts, yt \in Texts : UpdatePoint(xt, yt)
    \/ \E mouse_pos \in MousePositions : MouseDown(mouse_pos)
    \/ MouseReleased
    \/ \E s \in 0..MaxSubdivs : SaveMesh(s)

Spec == Init /\ [][Next]_vars

---------------------------------------------------------------------------
(* construct_mesh on its own: entered from "Save mesh" with any grid the   *)
(* editor can have made and any slider value.                              *)

\* What one activation of a point (a frame with the button down on it)
\* followed by "Update point" with two numbers makes of the grid m.
updated(m) ==
    {with_position(m, a[1], <<parse_f32(xt)[1], parse_f32(yt)[1]>>) :
        a \in {point_idx(mouse_pos, m) : mouse_pos \in MousePositions}
                  \ {<<>>},
        xt \in {t \in Texts : parse_f32(t) # <<>>},
        yt \in {t \in Texts : parse_f32(t) # <<>>}}

\* The pairs <<grid, moves>> reached from the grid m by at most n such
\* changes.
RECURSIVE edited(_, _)
edited(m, n) ==
    IF n = 0 THEN {<<m, 0>>}
    ELSE LET prev == edited(m, n - 1)
         IN  prev \cup UNION {{<<m2, n>> : m2 \in updated(e[1]) \ {e[1]}} :
                                 e \in {e \in prev : e[2] = n - 1}}

\* The grids construct_mesh is explored on.
TessMeshes ==
    UNION {edited(Mesh_value(w, h, palette_vec(w * h)), MaxMoves) :
              w \in {d \in Dims : d >= 2}, h \in {d \in Dims : d >= 2}}

TessInit ==
    /\ pc = "sample"
    /\ args = <<>>
    /\ \E e \in TessMeshes : mesh = e[1] /\ moves = e[2]
    /\ active_point_idx = <<>>
    /\ last_mouse_pos = <<>>
    /\ x_pos_text = ""
    /\ y_pos_text = ""
    /\ subdivs \in 0..MaxSubdivs
    /\ cw = 0
    /\ ch = 0
    /\ cr = 0
    /\ cc = 0
    /\ index_start = 0
    /\ positions = <<>>
    /\ colors = <<>>
    /\ indexes = <<>>

TessNext ==
    \/ SamplePatch
    \/ IndexCell

TessSpec == TessInit /\ [][TessNext]_vars

---------------------------------------------------------------------------
(* Properties of construct_mesh (checked under TessSpec).                  *)

InMesh == pc \in {"sample", "index", "returned"}

\* The sample loop of patch (cw, ch) has just run.
JustSampled == pc = "index" /\ cr = 0 /\ cc = 0

\* construct_mesh's `steps` and the number of samples of one patch.
Steps == subdivs + 1

PerPatch == (Steps + 1) * (Steps + 1)

\* The number of patches whose loop body is complete: cw and ch count the
\* `for w` and `for h` loops.
PatchesDone == cw * (mesh.height - 1) + ch

\* C1: construct_mesh returns (W-1)(H-1)(S+2)^2 positions, as many
\* colours and (W-1)(H-1)(S+1)^2*6 indices; each completed patch has
\* contributed (S+2)^2 vertices and 6(S+1)^2 indices.
C1_VertexCountLaw ==
    /\ pc = "returned" =>
          /\ Len(positions) = (mesh.width - 1) * (mesh.height - 1)
                                * (subdivs + 2) * (subdivs + 2)
          /\ Len(colors) = Len(positions)
          /\ Len(indexes) = (mesh.width - 1) * (mesh.height - 1)
                              * (subdivs + 1) * (subdivs + 1) * 6
    /\ pc = "sample" =>
          /\ Len(positions) = PatchesDone * (subdivs + 2) * (subdivs + 2)
          /\ Len(colors) = Len(positions)
          /\ Len(indexes) = PatchesDone * 6 * (subdivs + 1) * (subdivs + 1)

\* The 3x3 grid with S = 0 has returned 16 positions, 16 colours and 24
\* indices.
C1_Witness ==
    /\ pc = "returned"
    /\ mesh.width = 3 /\ mesh.height = 3 /\ subdivs = 0
    /\ Len(positions) = 16 /\ Len(colors) = 16 /\ Len(indexes) = 24

\* C2: every index pushed so far is below the number of positions pushed
\* so far (IndexCell pushes no position, so this is the number at the
\* time of the push), and the index list is whole triangles after every
\* cell.
C2_IndexBounds ==
    InMesh =>
       /\ \A k \in 1..Len(indexes) :
             indexes[k] >= 0 /\ indexes[k] < Len(positions)
       /\ Len(indexes) % 3 = 0

\* A cell has just been processed and its last vertex is referenced.
C2_Witness ==
    /\ InMesh
    /\ Len(indexes) > 0
    /\ \E k \in 1..Len(indexes) : indexes[k] = Len(positions) - 1

\* The raw position and the colour of patch (w, h) at the rational
\* parameters (u, v), by the code's matrices.
patch_pt(m, w, h, u, v) ==
    LET p == patch_corners(m, w, h)
    IN  ferguson_patch_pt(u, v,
            geometric_coefficients(p[1], p[2], p[3], p[4], "X"),
            geometric_coefficients(p[1], p[2], p[3], p[4], "Y"))

patch_col(m, w, h, u, v) ==
    LET p == patch_corners(m, w, h)
    IN  ferguson_patch_col(u, v,
            <<color_coefficients(p[1], p[2], p[3], p[4], "R"),
              color_coefficients(p[1], p[2], p[3], p[4], "G"),
              color_coefficients(p[1], p[2], p[3], p[4], "B")>>)

\* A control point's position and colour as rationals.
QPosition(cp) == <<QGrid(cp.position[1]), QGrid(cp.position[2])>>

QColor(cp) == <<QGrid(cp.color[1]), QGrid(cp.color[2]), QGrid(cp.color[3])>>

\* The patch at (u, v) has the position and the colour of control point cp.
Interpolates(m, w, h, u, v, cp) ==
    /\ patch_pt(m, w, h, QInt(u), QInt(v)) = QPosition(cp)
    /\ patch_col(m, w, h, QInt(u), QInt(v)) = QColor(cp)

\* C3 as claimed: (1, 0) is the corner p10 and (0, 1) the corner p01.
C3_CornersAsClaimed ==
    JustSampled =>
       LET p == patch_corners(mesh, cw, ch)
       IN  /\ Interpolates(mesh, cw, ch, 0, 0, p[1])
           /\ Interpolates(mesh, cw, ch, 1, 0, p[3])
           /\ Interpolates(mesh, cw, ch, 0, 1, p[2])
           /\ Interpolates(mesh, cw, ch, 1, 1, p[4])

\* C3, amended: the patch interpolates its four corners, with u running
\* from p00 to p01 and v from p00 to p10: (0, 0) is p00, (1, 0) is p01,
\* (0, 1) is p10 and (1, 1) is p11, in position and in colour.
C3_CornerExactness ==
    JustSampled =>
       LET p == patch_corners(mesh, cw, ch)
       IN  /\ Interpolates(mesh, cw, ch, 0, 0, p[1])
           /\ Interpolates(mesh, cw, ch, 1, 0, p[2])
           /\ Interpolates(mesh, cw, ch, 0, 1, p[3])
           /\ Interpolates(mesh, cw, ch, 1, 1, p[4])

\* A patch with a moved corner has been sampled; its corners p01 and p10
\* differ in position and in colour.
C3_Witness ==
    /\ JustSampled
    /\ moves > 0
    /\ LET p == patch_corners(mesh, cw, ch)
       IN  /\ p[1].position # Mesh_position(ch * mesh.width + cw,
                                            mesh.width, mesh.height)
           /\ p[2].position # p[3].position
           /\ p[2].color # p[3].color

\* (1 - a)(1 - b) c00 + a (1 - b) ca + (1 - a) b cb + a b c11: the blend
\* of four corner values with weight a towards ca and weight b towards cb.
Blend(a, b, c00, ca, cb, c11) ==
    LET na == QSub(QInt(1), a)
        nb == QSub(QInt(1), b)
    IN  QAdd(QAdd(QMul(QMul(na, nb), c00), QMul(QMul(a, nb), ca)),
             QAdd(QMul(QMul(na, b), cb), QMul(QMul(a, b), c11)))

\* 3t^2 - 2t^3, the Hermite weight of the far end.
Smooth(t) ==
    QSub(QMul(QInt(3), QMul(t, t)), QMul(QInt(2), QMul(t, QMul(t, t))))

\* The colour pushed for sample (i, j) of the patch being indexed.
SampleColor(i, j) == colors[index_start + i * (Steps + 1) + j + 1]

SamplePoint(i, j) == positions[index_start + i * (Steps + 1) + j + 1]

\* C4 as claimed: every sample's colour is the bilinear blend
\* (1-u)(1-v) c00 + u (1-v) c10 + (1-u) v c01 + u v c11.
C4_BilinearAsClaimed ==
    JustSampled =>
       LET p == patch_corners(mesh, cw, ch)
       IN  \A i \in 0..Steps, j \in 0..Steps, k \in 1..3 :
              SampleColor(i, j)[k] =
                 Blend(Q(i, Steps), Q(j, Steps), QColor(p[1])[k],
                       QColor(p[3])[k], QColor(p[2])[k], QColor(p[4])[k])

\* C4, amended: every sample's colour is the blend of the corner colours
\* with the Hermite weights s(u) towards p01 and s(v) towards p10, where
\* s(t) = 3t^2 - 2t^3.
C4_ColorBlend ==
    JustSampled =>
       LET p == patch_corners(mesh, cw, ch)
       IN  \A i \in 0..Steps, j \in 0..Steps, k \in 1..3 :
              SampleColor(i, j)[k] =
                 Blend(Smooth(Q(i, Steps)), Smooth(Q(j, Steps)),
                       QColor(p[1])[k], QColor(p[2])[k], QColor(p[3])[k],
                       QColor(p[4])[k])

\* A patch has been sampled at thirds, where s(t) # t, and its four
\* corners differ in colour.
C4_Witness ==
    /\ JustSampled
    /\ Steps = 3
    /\ LET p == patch_corners(mesh, cw, ch)
       IN  Cardinality({p[1].color, p[2].color, p[3].color, p[4].color}) = 4
    /\ Smooth(Q(1, 3)) # Q(1, 3)
    /\ SampleColor(1, 2) # SampleColor(2, 1)

\* The raw patch-space position evaluated for sample (i, j) of the patch
\* being indexed.
RawPoint(i, j) == patch_pt(mesh, cw, ch, Q(i, Steps), Q(j, Steps))

\* (2x - 1, -(2y - 1), 0) for the raw position (x, y).
Mapped(raw) ==
    <<QSub(QMul(QInt(2), raw[1]), QInt(1)),
      QSub(QInt(0), QSub(QMul(QInt(2), raw[2]), QInt(1))),
      QInt(0)>>

\* C5: every vertex emitted is (2 p.x - 1, -(2 p.y - 1), 0) for the raw
\* position p of its sample, so that z is 0; raw (0.5, 0.5) gives
\* (0, 0, 0), raw (0, 0) gives (-1, 1, 0) and raw (1, 1) gives (1, -1, 0).
C5_OutputMapping ==
    /\ InMesh => \A k \in 1..Len(positions) : positions[k][3] = QInt(0)
    /\ JustSampled =>
          \A i \in 0..Steps, j \in 0..Steps :
             /\ SamplePoint(i, j) = Mapped(RawPoint(i, j))
             /\ RawPoint(i, j) = <<Q(1, 2), Q(1, 2)>> =>
                   SamplePoint(i, j) = <<QInt(0), QInt(0), QInt(0)>>
             /\ RawPoint(i, j) = <<QInt(0), QInt(0)>> =>
                   SamplePoint(i, j) = <<QInt(-1), QInt(1), QInt(0)>>
             /\ RawPoint(i, j) = <<QInt(1), QInt(1)>> =>
                   SamplePoint(i, j) = <<QInt(1), QInt(-1), QInt(0)>>

\* The artifact of a grid holds a vertex of each of the three raw
\* positions (0.5, 0.5), (0, 0) and (1, 1), and one off both axes.
C5_Witness ==
    /\ pc = "returned"
    /\ \E k \in 1..Len(positions) :
          positions[k] = <<QInt(0), QInt(0), QInt(0)>>
    /\ \E k \in 1..Len(positions) :
          positions[k] = <<QInt(-1), QInt(1), QInt(0)>>
    /\ \E k \in 1..Len(positions) :
          positions[k] = <<QInt(1), QInt(-1), QInt(0)>>
    /\ \E k \in 1..Len(positions) :
          positions[k][1][1] # 0 /\ positions[k][2][1] # 0
             /\ positions[k][1] # positions[k][2]

\* idx(r, c) of the patch whose first vertex is `start`.
Idx(start, r, c) == start + r * (Steps + 1) + c

\* The n-th index (0-based) of the index list as the claim gives it: the
\* patches in processing order, the cells of a patch with r outer and c
\* inner, and for cell (r, c) the triangles
\* (idx(r+1,c), idx(r,c+1), idx(r,c)), (idx(r+1,c), idx(r+1,c+1), idx(r,c+1)).
ClaimedIndex(n) ==
    LET q     == n \div (6 * Steps * Steps)
        cell  == (n % (6 * Steps * Steps)) \div 6
        r     == cell \div Steps
        c     == cell % Steps
        start == IF pc = "index" /\ q = PatchesDone THEN index_start
                 ELSE q * PerPatch
        six   == <<Idx(start, r + 1, c), Idx(start, r, c + 1),
                   Idx(start, r, c),
                   Idx(start, r + 1, c), Idx(start, r + 1, c + 1),
                   Idx(start, r, c + 1)>>
    IN  six[(n % 6) + 1]

---------------------------------------------------------------------------
(* Properties of the grid and the editor (checked under Spec).             *)

InEditor == pc = "editor" /\ WellFormed(mesh)

\* Every point of m has the tangents (1/(W-1), 0) and (0, 1/(H-1)).
GridTangents(m) ==
    \A k \in 1..Len(m.points) :
       /\ m.points[k].u_tangent = <<One \div (m.width - 1), 0>>
       /\ m.points[k].v_tangent = <<0, One \div (m.height - 1)>>

\* A step leaves the grid's shape and every tangent as they were.
ShapeKept ==
    /\ mesh'.width = mesh.width
    /\ mesh'.height = mesh.height
    /\ Len(mesh'.points) = Len(mesh.points)
    /\ \A k \in 1..Len(mesh.points) :
          /\ mesh'.points[k].u_tangent = mesh.points[k].u_tangent
          /\ mesh'.points[k].v_tangent = mesh.points[k].v_tangent

\* C7: every control point of a W x H grid has u_tangent = (1/(W-1), 0)
\* and v_tangent = (0, 1/(H-1)) whatever its place, position and colour,
\* and no drag step, "Update point" or "Save mesh" changes a tangent, the
\* width, the height or the number of points.
C7_TangentInvariance ==
    /\ [](InEditor => GridTangents(mesh))
    /\ [][pc = "editor" => ShapeKept]_vars

\* A point has been moved and a mesh saved.
C7_Witness ==
    /\ InEditor
    /\ moves >= 1
    /\ subdivs >= 1
    /\ \E k \in 1..Len(mesh.points) :
          mesh.points[k].position
             # Mesh_position(k - 1, mesh.width, mesh.height)

\* C8 as claimed: point_at(w, h) is the point of column w and row h when
\* both are in range, and fails for every (w, h) that is not.
C8_PointAtAsClaimed ==
    InEditor =>
       \A w \in 0..mesh.width, h \in 0..mesh.height :
          IF w < mesh.width /\ h < mesh.height
          THEN point_at(mesh, w, h) = <<mesh.points[h * mesh.width + w + 1]>>
          ELSE point_at(mesh, w, h) = <<>>

\* The arguments break the contract of Mesh::new.
InvalidInput(a) ==
    \/ a.width < 2
    \/ a.height < 2
    \/ Len(a.colors) # a.width * a.height

\* C9 as claimed: Mesh::new fails, and makes no grid, whenever a dimension
\* is below 2 or the number of colours is not width * height.
C9_NewRejectsAsClaimed ==
    [][pc = "main" /\ InvalidInput(args) =>
          pc' = "panicked" /\ mesh' = NoMesh]_vars

\* C10 as claimed: in the editor both components of every control
\* point's position are in [0, 1].
C10_UnitSquareAsClaimed ==
    InEditor =>
       \A k \in 1..Len(mesh.points) :
          /\ 0 <= mesh.points[k].position[1]
          /\ mesh.points[k].position[1] <= One
          /\ 0 <= mesh.points[k].position[2]
          /\ mesh.points[k].position[2] <= One


---------------------------------------------------------------------------
(* Further properties of construct_mesh (checked under TessSpec).          *)

\* a <= b for rationals with positive denominators.
QLe(a, b) == a[1] * b[2] <= b[1] * a[2]

\* x lies between the least and the greatest of the values vs.
Between(x, vs) ==
    /\ \E lo \in vs : QLe(lo, x)
    /\ \E hi \in vs : QLe(x, hi)

\* Channel k of the four corner colours of patch (w, h) of the grid m.
CornerChannel(m, w, h, k) ==
    LET p == patch_corners(m, w, h)
    IN  {QColor(p[1])[k], QColor(p[2])[k], QColor(p[3])[k], QColor(p[4])[k]}

\* Every colour component of every control point of m is in [0, 1].
UnitColors(m) ==
    \A n \in 1..Len(m.points), k \in 1..3 :
       0 <= m.points[n].color[k] /\ m.points[n].color[k] <= One

\* C11: each channel of every colour ferguson_patch_col returns for a
\* sample of a patch lies between the least and the greatest value of
\* that channel over the patch's four corner colours; and when every
\* control-point colour has its components in [0, 1], so has every
\* colour construct_mesh emits.
C11_ColorRange ==
    /\ JustSampled =>
          \A i \in 0..Steps, j \in 0..Steps, k \in 1..3 :
             Between(SampleColor(i, j)[k], CornerChannel(mesh, cw, ch, k))
    /\ InMesh /\ UnitColors(mesh) =>
          \A n \in 1..Len(colors), k \in 1..3 :
             QLe(QInt(0), colors[n][k]) /\ QLe(colors[n][k], QInt(1))

\* A patch whose corners differ in a channel has been sampled, and an
\* inner sample's value of that channel is strictly between the least
\* and the greatest corner value and is none of the corner values.
C11_Witness ==
    /\ JustSampled
    /\ Steps >= 2
    /\ UnitColors(mesh)
    /\ \E k \in 1..3 :
          /\ Cardinality(CornerChannel(mesh, cw, ch, k)) >= 2
          /\ SampleColor(1, 1)[k] \notin CornerChannel(mesh, cw, ch, k)
          /\ Between(SampleColor(1, 1)[k], CornerChannel(mesh, cw, ch, k))


\* The patch (0-based, in processing order) that pushed the n-th index
\* (1-based): each patch pushes 6 * steps * steps of them.
PatchOfIndex(n) == (n - 1) \div (6 * Steps * Steps)

\* C12: while the k-th patch is indexed, index_start is k * (S+2)^2, the
\* number of positions emitted before the patch, and every index emitted
\* for the k-th patch is in [k * (S+2)^2, (k+1) * (S+2)^2): no triangle
\* refers to a vertex of another patch.
C12_PatchRanges ==
    /\ pc = "index" =>
          /\ index_start = PatchesDone * PerPatch
          /\ index_start = Len(positions) - PerPatch
    /\ InMesh =>
          \A n \in 1..Len(indexes) :
             /\ PatchOfIndex(n) * PerPatch <= indexes[n]
             /\ indexes[n] < (PatchOfIndex(n) + 1) * PerPatch

\* A grid of four patches has been tessellated: the first index of the
\* last patch is pushed and refers to a vertex of the last patch.
C12_Witness ==
    /\ pc = "returned"
    /\ (mesh.width - 1) * (mesh.height - 1) = 4
    /\ Len(indexes) = 4 * 6 * Steps * Steps
    /\ PatchOfIndex(3 * 6 * Steps * Steps + 1) = 3
    /\ indexes[3 * 6 * Steps * Steps + 1] >= 3 * PerPatch


\* The place (1-based) in positions and colors of sample (i, j) of patch
\* (w, h): the patches are emitted with w outer and h inner, the samples
\* with i outer and j inner.
VertexOf(w, h, i, j) ==
    (w * (mesh.height - 1) + h) * PerPatch + i * (Steps + 1) + j + 1

\* The vertices at the places a and b have the same position and colour.
SameVertex(a, b) == positions[a] = positions[b] /\ colors[a] = colors[b]

\* C13: in the returned mesh, for every two adjacent patches and every
\* k in 0..steps, the k-th sample along the edge between their two shared
\* control points has the same position and the same colour in both:
\* patches (w, h) and (w, h + 1) share (w, h + 1) and (w + 1, h + 1), the
\* edge u = 1 of the first and u = 0 of the second; patches (w, h) and
\* (w + 1, h) share (w + 1, h) and (w + 1, h + 1), the edge v = 1 of the
\* first and v = 0 of the second.
C13_SharedEdges ==
    pc = "returned" =>
       \A w \in 0..(mesh.width - 2), h \in 0..(mesh.height - 2),
          k \in 0..Steps :
          /\ h + 1 <= mesh.height - 2 =>
                SameVertex(VertexOf(w, h, Steps, k), VertexOf(w, h + 1, 0, k))
          /\ w + 1 <= mesh.width - 2 =>
                SameVertex(VertexOf(w, h, k, Steps), VertexOf(w + 1, h, k, 0))

\* A 3x3 grid whose centre point, shared by all four patches, was moved
\* has been tessellated with inner samples on the edges: the inner sample
\* of the edge between patches (0, 0) and (0, 1) is emitted twice, and
\* is neither end of the edge.
C13_Witness ==
    /\ pc = "returned"
    /\ mesh.width = 3 /\ mesh.height = 3
    /\ Steps >= 2
    /\ moves > 0
    /\ mesh.points[5].position # Mesh_position(4, 3, 3)
    /\ VertexOf(0, 0, Steps, 1) # VertexOf(0, 1, 0, 1)
    /\ SameVertex(VertexOf(0, 0, Steps, 1), VertexOf(0, 1, 0, 1))
    /\ positions[VertexOf(0, 1, 0, 1)] # positions[VertexOf(0, 1, 0, 0)]
    /\ positions[VertexOf(0, 1, 0, 1)] # positions[VertexOf(0, 1, 0, Steps)]


---------------------------------------------------------------------------
(* Further properties of the editor (checked under Spec).                  *)

\* A step is a frame with the left button down, or an "Update point".
DragStep == \E mouse_pos \in MousePositions : MouseDown(mouse_pos)

UpdateStep == \E xt \in Texts, yt \in Texts : UpdatePoint(xt, yt)

\* A step lowers a coordinate of some control point's position.
Lowered ==
    \E k \in 1..Len(mesh.points), c \in 1..2 :
       mesh'.points[k].position[c] < mesh.points[k].position[c]

\* C14: a frame with the button down never lowers a coordinate of the
\* active control point (nor of any other point): what it adds is
\* pt_coord(mouse_pos - last_mouse_pos), whose components are in [0, 1],
\* so a move of the mouse to the left or upwards leaves the coordinate
\* as it was; a step of the editor that lowers a coordinate is an
\* "Update point".
C14_DragNeverLowers ==
    /\ [][Lowered => ~DragStep]_vars
    /\ [][\A mouse_pos \in MousePositions :
            /\ pc = "editor"
            /\ last_mouse_pos # <<>>
            /\ active_point_idx # <<>>
            /\ mouse_pos[1] < WORKSPACE_SIZE_W
            /\ last_mouse_pos' = <<mouse_pos>>
            /\ MouseDown(mouse_pos)
            => LET a  == active_point_idx[1] + 1
                   dx == mouse_pos[1] - last_mouse_pos[1][1]
                   dy == mouse_pos[2] - last_mouse_pos[1][2]
               IN  /\ dx <= 0 =>
                         mesh'.points[a].position[1]
                            = mesh.points[a].position[1]
                   /\ dy <= 0 =>
                         mesh'.points[a].position[2]
                            = mesh.points[a].position[2]]_vars
    /\ [][pc = "editor" /\ Lowered => UpdateStep]_vars

\* The centre point of the 3x3 grid was dragged to the right, to x = 1.1
\* (a value "Update point" cannot give), and the pressed mouse then went
\* back to the left, to pixel (300, 300): the point stayed where the
\* drag had put it and is no longer under the mouse.
C14_Witness ==
    /\ InEditor
    /\ mesh.width = 3 /\ mesh.height = 3
    /\ moves = 1
    /\ mesh.points[5].position = <<One \div 2 + 264, One \div 2>>
    /\ last_mouse_pos = <<<<300, 300>>>>
    /\ active_point_idx = <<>>

===========================================================================
